---- MODULE Spec2Model ----
(***************************************************************************)
(* A model of server.py: a Socket.IO chat backend that answers each        *)
(* inbound `message` event from a table of canned responses or, failing    *)
(* that, from a remote chat-completion endpoint.                            *)
(*                                                                         *)
(* Texts.  A Python str is modelled as a sequence of atoms.  An atom is    *)
(* either one character ("h", " ", "\t") or an indivisible run of          *)
(* characters that neither starts nor ends with whitespace and holds no    *)
(* upper-case letter the model lowers (a literal of the source, an error   *)
(* message).  strip() and lower() work on atoms as Python works on         *)
(* characters.                                                             *)
(*                                                                         *)
(* JSON.  The values a client or the completion endpoint can send are      *)
(* records [t, v]: t is the Python type the value decodes to, v its        *)
(* content.                                                                *)
(***************************************************************************)
EXTENDS Integers, Sequences, FiniteSets, TLC

(***************************************************************************)
(* Bounds of the model.                                                    *)
(***************************************************************************)
NumSessions == 2     \* session ids the transport hands out
MaxSends == 2        \* `message` events the clients send in one behaviour

Sessions == 1 .. NumSessions

(***************************************************************************)
(* Python str operations.                                                  *)
(***************************************************************************)
Whitespace == {" ", "\t", "\n"}

Upper == <<"A", "B", "C", "D", "E", "F", "G", "H", "I", "J", "K", "L", "M",
           "N", "O", "P", "Q", "R", "S", "T", "U", "V", "W", "X", "Y", "Z">>
Lower == <<"a", "b", "c", "d", "e", "f", "g", "h", "i", "j", "k", "l", "m",
           "n", "o", "p", "q", "r", "s", "t", "u", "v", "w", "x", "y", "z">>

UpperSet == {Upper[i] : i \in 1 .. Len(Upper)}

LowerChar(c) ==
    IF c \in UpperSet
    THEN Lower[CHOOSE i \in 1 .. Len(Upper) : Upper[i] = c]
    ELSE c

\* str.lower()
lower(s) == [i \in 1 .. Len(s) |-> LowerChar(s[i])]

RECURSIVE lstrip(_)
lstrip(s) ==
    IF s # <<>> /\ Head(s) \in Whitespace THEN lstrip(Tail(s)) ELSE s

RECURSIVE rstrip(_)
rstrip(s) ==
    IF s # <<>> /\ s[Len(s)] \in Whitespace
    THEN rstrip(SubSeq(s, 1, Len(s) - 1))
    ELSE s

\* strip() as it would be with lstrip() in its place
strip_left_only(s) == lstrip(s)

\* str.strip(): both ends lose their whitespace, the inside keeps it
strip(s) == rstrip(lstrip(s))

(***************************************************************************)
(* JSON values as Python decodes them.                                     *)
(***************************************************************************)
JNull == [t |-> "null", v |-> 0]
JNum(n) == [t |-> "num", v |-> n]
JStr(s) == [t |-> "str", v |-> s]
JList(l) == [t |-> "list", v |-> l]
JDict(d) == [t |-> "dict", v |-> d]
EmptyDict == [k \in {} |-> JNull]

\* bool(j): None, 0, "", [] and {} are false
Truthy(j) ==
    CASE j.t = "null" -> FALSE
      [] j.t = "num" -> j.v # 0
      [] j.t = "str" -> j.v # <<>>
      [] j.t = "list" -> j.v # <<>>
      [] j.t = "dict" -> DOMAIN j.v # {}

\* The result of an expression that may raise.
Ok(val) == [exc |-> "none", v |-> val]
Raised(name) == [exc |-> name, v |-> JNull]

\* `key in j` for a str key
Contains(j, key) ==
    CASE j.t = "dict" -> Ok(key \in DOMAIN j.v)
      [] j.t = "list" -> Ok(\E i \in 1 .. Len(j.v) : j.v[i] = JStr(<<key>>))
      [] j.t = "str" -> Ok(\E i \in 1 .. Len(j.v) : j.v[i] = key)
      [] OTHER -> Raised("TypeError")

\* j[key] for a str key
GetItem(j, key) ==
    CASE j.t = "dict" ->
           IF key \in DOMAIN j.v THEN Ok(j.v[key]) ELSE Raised("KeyError")
      [] OTHER -> Raised("TypeError")

\* j[0]
GetFirst(j) ==
    CASE j.t = "list" ->
           IF j.v # <<>> THEN Ok(j.v[1]) ELSE Raised("IndexError")
      [] j.t = "str" ->
           IF j.v # <<>> THEN Ok(JStr(<<j.v[1]>>)) ELSE Raised("IndexError")
      [] j.t = "dict" -> Raised("KeyError")
      [] OTHER -> Raised("TypeError")

\* j.strip()
StripOf(j) ==
    IF j.t = "str" THEN Ok(JStr(strip(j.v))) ELSE Raised("AttributeError")

(***************************************************************************)
(* Configuration and the canned-response table.                            *)
(***************************************************************************)
None == [isNone |-> TRUE, s |-> <<>>]
Str(s) == [isNone |-> FALSE, s |-> s]

\* bool(x) of an Optional[str]
NonEmpty(x) == ~x.isNone /\ x.s # <<>>

\* The values the environment can give OPENAI_API_KEY: unset, empty, set.
ApiKeys == {None, Str(<<>>), Str(<<"sk-test">>)}

CannedTable ==
    {  <<<<"h", "e", "l", "l", "o">>,
         <<"Greetings. How may I be of service?">>>>,
       <<<<"h", "o", "w", " ", "a", "r", "e", " ", "y", "o", "u">>,
         <<"As well as can be expected, given the circumstances. And you?">>>>,
       <<<<"w", "h", "a", "t", " ", "i", "s", " ", "t", "h", "e", " ",
           "t", "i", "m", "e">>,
         <<"One moment, I shall consult the chronometer.">>>>,
       <<<<"t", "e", "l", "l", " ", "m", "e", " ", "a", " ", "s", "e", "c",
           "r", "e", "t">>,
         <<"A good butler keeps his secrets, sir.">>>>,
       <<<<"w", "h", "a", "t", " ", "d", "o", " ", "y", "o", "u", " ", "k",
           "n", "o", "w", " ", "a", "b", "o", "u", "t", " ", "s", "p", "a",
           "i", "n">>,
         <<"Spain, a land of rich history and vibrant culture. A fascinating place indeed.">>>>,
       <<<<"g", "o", "o", "d", "n", "i", "g", "h", "t">>,
         <<"Sleep well, master. May your rest be undisturbed.">>>>,
       <<<<"t", "h", "a", "n", "k", " ", "y", "o", "u">>,
         <<"You are most welcome, sir.">>>>  }

CannedKeys == {p[1] : p \in CannedTable}

canned_responses ==
    [k \in CannedKeys |-> (CHOOSE p \in CannedTable : p[1] = k)[2]]

(***************************************************************************)
(* The replies the handler composes itself.                                *)
(***************************************************************************)
NotConfiguredText == <<"Master, the external service key is not configured.">>
UninterpretableText ==
    <<"Forgive me, master, the external service returned an uninterpretable response.">>
TimeoutText ==
    <<"Master, the external service took too long to respond. Pray, try again.">>
IssuePrefix ==
    <<"I encountered an issue contacting the external service, master:", " ">>
InternalErrorText == <<"An unexpected internal error has occurred, master.">>

\* f"I encountered an issue contacting the external service, master: {e}"
IssueText(e) == IssuePrefix \o e


(***************************************************************************)
(* The outbound completion call, lines 118-154.                            *)
(*                                                                         *)
(* An outcome is what requests.post does for one request: it raises an     *)
(* exception of class cls with message e, or it returns a response with a  *)
(* status and a body.  A body that is not JSON makes .json() raise; the    *)
(* class it raises depends on the installed requests (JSONDecodeError, a   *)
(* RequestException, since 2.27; ValueError before), so the outcome        *)
(* carries it in cls.                                                      *)
(***************************************************************************)
NotJson == [t |-> "notjson", v |-> 0]

Raises(cls, e) ==
    [kind |-> "raises", cls |-> cls, e |-> e, status |-> 0, body |-> JNull]
Response(status, body) ==
    [kind |-> "response", cls |-> "none", e |-> <<>>, status |-> status,
     body |-> body]
Undecodable(status, cls) ==
    [kind |-> "response", cls |-> cls, e |-> <<"Expecting value">>,
     status |-> status, body |-> NotJson]
NoOutcome ==
    [kind |-> "none", cls |-> "none", e |-> <<>>, status |-> 0, body |-> JNull]

\* requests.exceptions: the classes `except requests.exceptions.Timeout`
\* and `except requests.exceptions.RequestException` catch
IsTimeout(cls) == cls \in {"Timeout", "ConnectTimeout", "ReadTimeout"}
IsRequestException(cls) ==
    \/ IsTimeout(cls)
    \/ cls \in {"RequestException", "ConnectionError", "HTTPError",
                "JSONDecodeError"}

\* raise_for_status as it would be if it raised for server errors only
raise_for_status_5xx(status) == 500 <= status /\ status < 600

\* Response.raise_for_status(): HTTPError for 4xx and 5xx
raise_for_status(status) == 400 <= status /\ status < 600

\* str(e) of the HTTPError raise_for_status raises
HTTPErrorText(status) ==
    <<ToString(status), " ",
      IF status < 500 THEN "Client Error" ELSE "Server Error">>

\* What the try block did: it raised cls (message e), or it set
\* response_text to text and logged at level.
Thrown(cls, e) == [cls |-> cls, e |-> e, text |-> <<>>, level |-> "none"]
Assigned(text, level) ==
    [cls |-> "none", e |-> <<>>, text |-> text, level |-> level]

\* lines 140-141: response_data['choices'][0]['message']['content'].strip()
FirstChoiceContent(response_data) ==
    LET choices == GetItem(response_data, "choices")
        first == IF choices.exc = "none" THEN GetFirst(choices.v) ELSE choices
        msg == IF first.exc = "none" THEN GetItem(first.v, "message") ELSE first
        content == IF msg.exc = "none" THEN GetItem(msg.v, "content") ELSE msg
    IN  IF content.exc = "none" THEN StripOf(content.v) ELSE content

\* lines 139-144: the shape test and both of its branches
ReadCompletion(response_data) ==
    LET unexpected == Assigned(UninterpretableText, "ERROR") IN
    IF ~Truthy(response_data) THEN unexpected
    ELSE LET has == Contains(response_data, "choices") IN
         IF has.exc # "none" THEN Thrown(has.exc, <<>>)
         ELSE IF ~has.v THEN unexpected
         ELSE LET choices == GetItem(response_data, "choices") IN
              IF choices.exc # "none" THEN Thrown(choices.exc, <<>>)
              ELSE IF ~Truthy(choices.v) THEN unexpected
              ELSE LET c == FirstChoiceContent(response_data) IN
                   IF c.exc # "none" THEN Thrown(c.exc, <<>>)
                   ELSE Assigned(c.v.v, "INFO")

\* lines 134-144: the body of the try block
TryBlock(o) ==
    IF o.kind = "raises" THEN Thrown(o.cls, o.e)
    ELSE IF raise_for_status(o.status)
         THEN Thrown("HTTPError", HTTPErrorText(o.status))
    ELSE IF o.body = NotJson THEN Thrown(o.cls, o.e)
    ELSE ReadCompletion(o.body)

\* the except clauses with RequestException tried before its subclass
\* Timeout
ExceptClauses_RequestFirst(r) ==
    IF IsRequestException(r.cls) THEN Assigned(IssueText(r.e), "ERROR")
    ELSE IF IsTimeout(r.cls) THEN Assigned(TimeoutText, "ERROR")
    ELSE Assigned(InternalErrorText, "ERROR")

\* lines 146-154: the except clauses, in the order Python tries them
ExceptClauses(r) ==
    IF IsTimeout(r.cls) THEN Assigned(TimeoutText, "ERROR")
    ELSE IF IsRequestException(r.cls) THEN Assigned(IssueText(r.e), "ERROR")
    ELSE Assigned(InternalErrorText, "ERROR")

\* lines 118-154: response_text and the log level after the try statement
CallOpenAI(o) ==
    LET r == TryBlock(o) IN
    IF r.cls = "none" THEN r ELSE ExceptClauses(r)

(***************************************************************************)
(* What the clients and the completion endpoint can send.                  *)
(***************************************************************************)
Utterances ==
    { <<>>,
      <<" ", "\t">>,
      <<"h", "e", "l", "l", "o">>,
      <<" ", "H", "e", "L", "L", "O", "\n">>,
      <<"T", "h", "a", "n", "k", " ", "y", "o", "u">>,
      <<" ", "h", "e", "l", "l", "o", " ", "h", "i", " ">> }

\* The payloads of an inbound `message` event: {text: <str>}, {} without
\* the field, a text that is not a str, and a payload that is no object.
Payloads ==
    {JDict([text |-> JStr(u)]) : u \in Utterances}
    \cup {JDict(EmptyDict), JDict([text |-> JNull]), JDict([text |-> JNum(7)]),
          JStr(<<"h", "i">>)}

Completion(content) ==
    JDict([choices |-> JList(<<JDict([message |-> JDict([content |-> content])])>>)])

Contents ==
    { <<" ", "Sunny today.", " ">>, <<" ", "\n">>, <<>> }

Bodies ==
    {Completion(JStr(c)) : c \in Contents}
    \cup { Completion(JNull), Completion(JNum(5)),
           JDict([choices |-> JList(<<JDict([message |-> JDict(EmptyDict)])>>)]),
           JDict([choices |-> JList(<<JDict(EmptyDict)>>)]),
           JDict([choices |-> JList(<<>>)]),
           JDict([choices |-> JNull]),
           JDict([error |-> JStr(<<"insufficient_quota">>)]),
           JDict(EmptyDict),
           JNull,
           JNum(5),
           JList(<<JNum(1)>>),
           JStr(<<"choices">>) }

Outcomes ==
    { Raises("ReadTimeout", <<"Read timed out.">>),
      Raises("ConnectTimeout", <<"Connection timed out.">>),
      Raises("ConnectionError", <<"Connection refused">>),
      Raises("ConnectionError", <<"Name or service not known">>) }
    \cup {Response(200, b) : b \in Bodies}
    \cup { Response(300, Completion(JStr(<<" ", "Sunny today.", " ">>))),
           Response(401, JDict([error |-> JStr(<<"insufficient_quota">>)])),
           Response(503, Completion(JStr(<<" ", "Sunny today.", " ">>))) }
    \cup {Undecodable(200, cls) : cls \in {"JSONDecodeError", "ValueError"}}

(***************************************************************************)
(* The state.                                                              *)
(***************************************************************************)
VARIABLES
    OPENAI_API_KEY,   \* line 12, read once at start-up
    monkey_patched,   \* how the module is served, fixed at start-up: FALSE
                      \* when run as a script (lines 168-187), TRUE under
                      \* the gunicorn eventlet worker of line 180
    conn,             \* per session id: "new", "open", "gone" (the client
                      \* has left, the server has not run disconnect yet),
                      \* "closed"
    sent,             \* per session: number of events its client has sent
    inbox,            \* per session: the events received whose handler has
                      \* not run yet, by their number in the session
    inflight,         \* per session: the handlers suspended in requests.post
    outbox,           \* per session: the `message` events delivered to it
    last              \* the handler invocation that has ended and not yet
                      \* returned, NoLast when there is none

vars ==
    <<OPENAI_API_KEY, monkey_patched, conn, sent, inbox, inflight, outbox,
      last>>

\* The frame of a handler: the event it serves, its user_message and the
\* number of requests it has sent to the completion endpoint (line 134).
Frame(m, user_message) ==
    [id |-> m.id, data |-> m.data, user_message |-> user_message, calls |-> 0]

NoLast ==
    [sid |-> 0, id |-> 0, data |-> JNull, user_message |-> <<>>,
     outcome |-> NoOutcome, response_text |-> None, calls |-> 0, emits |-> 0,
     recipients |-> {}, raised |-> FALSE, levels |-> <<>>]

Init ==
    /\ OPENAI_API_KEY \in ApiKeys
    /\ monkey_patched \in BOOLEAN
    /\ conn = [s \in Sessions |-> "new"]
    /\ sent = [s \in Sessions |-> 0]
    /\ inbox = [s \in Sessions |-> <<>>]
    /\ inflight = [s \in Sessions |-> {}]
    /\ outbox = [s \in Sessions |-> <<>>]
    /\ last = NoLast

RECURSIVE Sum(_, _)
Sum(f, S) ==
    IF S = {} THEN 0
    ELSE LET x == CHOOSE x \in S : TRUE IN f[x] + Sum(f, S \ {x})

\* Every handler is a green thread of one OS thread (line 184; socketio
\* starts one per event).  The script never calls eventlet.monkey_patch(),
\* so there requests.post (line 134) blocks the OS thread and no handler
\* starts or resumes while a call is in flight; the gunicorn eventlet
\* worker patches the socket module, and the call yields to the hub.
HubRunning == monkey_patched \/ \A s \in Sessions : inflight[s] = {}

(***************************************************************************)
(* The handlers.                                                           *)
(***************************************************************************)
\* line 96 without the strip(): data.get('text', '')
user_message_unstripped(data) ==
    IF data.t # "dict" THEN Raised("AttributeError")
    ELSE LET x == IF "text" \in DOMAIN data.v THEN data.v["text"]
                  ELSE JStr(<<>>)
         IN  IF x.t = "str" THEN Ok(x) ELSE Raised("AttributeError")

\* line 96: data.get('text', '').strip()
user_message_of(data) ==
    IF data.t # "dict" THEN Raised("AttributeError")
    ELSE StripOf(IF "text" \in DOMAIN data.v THEN data.v["text"]
                 ELSE JStr(<<>>))

\* lines 103-117 with the credential tested before the table
LocalReply_KeyFirst(user_message, key) ==
    IF ~NonEmpty(key)
    THEN [call |-> FALSE, text |-> NotConfiguredText,
          levels |-> <<"INFO", "CRITICAL">>]
    ELSE IF lower(user_message) \in DOMAIN canned_responses
    THEN [call |-> FALSE, text |-> canned_responses[lower(user_message)],
          levels |-> <<"INFO">>]
    ELSE [call |-> TRUE, text |-> <<>>, levels |-> <<"INFO">>]

\* lines 103-117 with `if OPENAI_API_KEY is None` for `if not OPENAI_API_KEY`
LocalReply_KeyIsNone(user_message, key) ==
    IF lower(user_message) \in DOMAIN canned_responses
    THEN [call |-> FALSE, text |-> canned_responses[lower(user_message)],
          levels |-> <<"INFO">>]
    ELSE IF key.isNone
    THEN [call |-> FALSE, text |-> NotConfiguredText,
          levels |-> <<"INFO", "CRITICAL">>]
    ELSE [call |-> TRUE, text |-> <<>>, levels |-> <<"INFO">>]

\* lines 103-117: the reply the handler finds without an outbound call, or
\* call = TRUE when it goes on to the completion endpoint
LocalReply(user_message, key) ==
    IF lower(user_message) \in DOMAIN canned_responses
    THEN [call |-> FALSE, text |-> canned_responses[lower(user_message)],
          levels |-> <<"INFO">>]
    ELSE IF ~NonEmpty(key)
    THEN [call |-> FALSE, text |-> NotConfiguredText,
          levels |-> <<"INFO", "CRITICAL">>]
    ELSE [call |-> TRUE, text |-> <<>>, levels |-> <<"INFO">>]

\* line 161 without room=sid: the event goes to every client
Room_Broadcast(room) == Sessions

\* line 161, room=sid: python-socketio puts every client in the room that
\* is named by its own session id, and in no other room here
Room(room) == {s \in Sessions : s = room}

\* lines 158-164 without the try statement around sio.emit
Emission_Unguarded(sid, response_text, emit_ok) ==
    IF ~NonEmpty(response_text)
    THEN [emits |-> 0, recipients |-> {}, levels |-> <<>>, raised |-> FALSE]
    ELSE IF emit_ok
    THEN [emits |-> 1,
          recipients |-> {s \in Room(sid) : conn[s] = "open"},
          levels |-> <<"INFO">>, raised |-> FALSE]
    ELSE [emits |-> 1, recipients |-> {}, levels |-> <<>>, raised |-> TRUE]

\* lines 158-164: `if response_text:` and the guarded sio.emit.  emit_ok
\* says whether sio.emit returned or raised.
Emission(sid, response_text, emit_ok) ==
    IF ~NonEmpty(response_text)
    THEN [emits |-> 0, recipients |-> {}, levels |-> <<>>, raised |-> FALSE]
    ELSE IF emit_ok
    THEN [emits |-> 1,
          recipients |-> {s \in Room(sid) : conn[s] = "open"},
          levels |-> <<"INFO">>, raised |-> FALSE]
    ELSE \* lines 163-164: the exception is caught and logged
         [emits |-> 1, recipients |-> {}, levels |-> <<"ERROR">>,
          raised |-> FALSE]

\* line 161: the event a recipient gets, {'user': 'Butler', 'text':
\* response_text}, named by the inbound event that triggered it; its text
\* is last.response_text in the step that delivers it
Reply(sid, id) == [from |-> sid, id |-> id]

\* lines 157-164, and the return of the handler
Finish(sid, f, outcome, response_text, levels, emit_ok) ==
    LET em == Emission(sid, response_text, emit_ok) IN
    /\ outbox' = [s \in Sessions |->
                    IF s \in em.recipients
                    THEN Append(outbox[s], Reply(sid, f.id))
                    ELSE outbox[s]]
    /\ last' = [sid |-> sid, id |-> f.id, data |-> f.data,
                user_message |-> f.user_message, outcome |-> outcome,
                response_text |-> response_text, calls |-> f.calls,
                emits |-> em.emits, recipients |-> em.recipients,
                raised |-> em.raised, levels |-> levels \o em.levels]

\* lines 70-73
connect(sid) ==
    /\ last = NoLast
    /\ HubRunning
    /\ conn[sid] = "new"
    /\ conn' = [conn EXCEPT ![sid] = "open"]
    /\ UNCHANGED <<OPENAI_API_KEY, monkey_patched, sent, inbox, inflight,
                   outbox, last>>

\* A client sends a `message` event; the handler reads its payload.
ClientSend(sid) ==
    /\ last = NoLast
    /\ conn[sid] = "open"
    /\ Sum(sent, Sessions) < MaxSends
    /\ inbox' = [inbox EXCEPT ![sid] = Append(@, sent[sid] + 1)]
    /\ sent' = [sent EXCEPT ![sid] = @ + 1]
    /\ UNCHANGED <<OPENAI_API_KEY, monkey_patched, conn, inflight, outbox,
                   last>>

\* A client closes its connection; it may do so at any time.
ClientClose(sid) ==
    /\ last = NoLast
    /\ conn[sid] = "open"
    /\ conn' = [conn EXCEPT ![sid] = "gone"]
    /\ UNCHANGED <<OPENAI_API_KEY, monkey_patched, sent, inbox, inflight,
                   outbox, last>>

\* lines 81-84: runs once the events received before the close are handled
disconnect(sid) ==
    /\ last = NoLast
    /\ HubRunning
    /\ conn[sid] = "gone"
    /\ inbox[sid] = <<>>
    /\ conn' = [conn EXCEPT ![sid] = "closed"]
    /\ UNCHANGED <<OPENAI_API_KEY, monkey_patched, sent, inbox, inflight,
                   outbox, last>>

\* lines 86-134: the handler up to its return or to the outbound request
message(sid) ==
    /\ last = NoLast
    /\ HubRunning
    /\ inbox[sid] # <<>>
    /\ inbox' = [inbox EXCEPT ![sid] = Tail(@)]
    /\ \E data \in Payloads :
       LET m == [id |-> Head(inbox[sid]), data |-> data]
           um == user_message_of(m.data)
           f == Frame(m, IF um.exc = "none" THEN um.v.v ELSE <<>>)
           local == LocalReply(f.user_message, OPENAI_API_KEY)
       IN  IF um.exc # "none"
           THEN \* line 96 raises: the handler ends with the exception
                /\ last' = [NoLast EXCEPT !.sid = sid, !.id = m.id,
                                          !.data = m.data, !.raised = TRUE,
                                          !.levels = <<"INFO">>]
                /\ UNCHANGED <<inflight, outbox>>
           ELSE IF f.user_message = <<>>
           THEN \* lines 98-100
                /\ last' = [NoLast EXCEPT !.sid = sid, !.id = m.id,
                                          !.data = m.data,
                                          !.levels = <<"INFO", "WARNING">>]
                /\ UNCHANGED <<inflight, outbox>>
           ELSE IF ~local.call
           THEN \* lines 106-108 and 114-116, then 157-164
                /\ \E emit_ok \in BOOLEAN :
                     Finish(sid, f, NoOutcome, Str(local.text),
                            <<"INFO">> \o local.levels, emit_ok)
                /\ UNCHANGED inflight
           ELSE \* line 134: the request is sent, the handler waits
                /\ inflight' = [inflight EXCEPT
                                  ![sid] = @ \cup {[f EXCEPT !.calls = 1]}]
                /\ UNCHANGED <<outbox, last>>
    /\ UNCHANGED <<OPENAI_API_KEY, monkey_patched, conn, sent>>

\* the except clauses as they would be with one more attempt after a
\* failed request
Retries_Once(r, calls) == r.cls # "none" /\ calls < 2

\* lines 146-154: whether the handler sends the request again after the try
\* block ended as r with calls requests sent; no except clause does, each
\* sets response_text and falls through to line 157
Retries(r, calls) == FALSE

\* lines 134-164: requests.post returns or raises, the handler runs on to
\* its end
openai_response(sid) ==
    /\ last = NoLast
    /\ \E f \in inflight[sid], o \in Outcomes, emit_ok \in BOOLEAN :
         LET r == CallOpenAI(o) IN
         IF Retries(TryBlock(o), f.calls)
         THEN /\ inflight' = [inflight EXCEPT
                                ![sid] = (@ \ {f})
                                         \cup {[f EXCEPT !.calls = @ + 1]}]
              /\ UNCHANGED <<outbox, last>>
         ELSE /\ Finish(sid, f, o, Str(r.text),
                        <<"INFO", "INFO", r.level>>, emit_ok)
              /\ inflight' = [inflight EXCEPT ![sid] = @ \ {f}]
    /\ UNCHANGED <<OPENAI_API_KEY, monkey_patched, conn, sent, inbox>>

\* line 164, the end of the handler: it returns to socketio.  last holds
\* the ended invocation until then, and the model takes no other step in
\* between, so that a property of last sees the state the handler ended in.
handler_returns ==
    /\ last # NoLast
    /\ last' = NoLast
    /\ UNCHANGED <<OPENAI_API_KEY, monkey_patched, conn, sent, inbox, inflight,
                   outbox>>

Next ==
    \/ handler_returns
    \/ \E sid \in Sessions :
       \/ connect(sid)
       \/ ClientSend(sid)
       \/ ClientClose(sid)
       \/ disconnect(sid)
       \/ message(sid)
       \/ openai_response(sid)

Spec == Init /\ [][Next]_vars

TypeOK ==
    /\ OPENAI_API_KEY \in ApiKeys
    /\ monkey_patched \in BOOLEAN
    /\ conn \in [Sessions -> {"new", "open", "gone", "closed"}]
    /\ \A s \in Sessions : Cardinality(inflight[s]) <= MaxSends

(***************************************************************************)
(* Properties.  They speak about the inbound payload and the outcome of    *)
(* the outbound call, as recorded in last by the step that ended the       *)
(* handler.                                                                *)
(***************************************************************************)
Handled == last.sid # 0

\* the payload carries a str in its text field
HasText(data) ==
    data.t = "dict" /\ "text" \in DOMAIN data.v /\ data.v["text"].t = "str"

RawText(data) == data.v["text"].v

\* the text is non-empty after trimming: it has a character that is not
\* whitespace
NonBlank(data) ==
    HasText(data)
    /\ \E i \in 1 .. Len(RawText(data)) : RawText(data)[i] \notin Whitespace

\* the text field is absent, empty or whitespace-only
Blank(data) ==
    /\ data.t = "dict"
    /\ \/ "text" \notin DOMAIN data.v
       \/ /\ data.v["text"].t = "str"
          /\ \A i \in 1 .. Len(RawText(data)) : RawText(data)[i] \in Whitespace

\* the trimmed, lowercased text is a key of the table
CannedInput(data) ==
    NonBlank(data) /\ lower(strip(RawText(data))) \in CannedKeys

\* the body has the shape of section 6: an object whose `choices` is an
\* array, whose first element has message.content, a string
WellFormed(body) ==
    /\ body.t = "dict"
    /\ "choices" \in DOMAIN body.v
    /\ body.v["choices"].t = "list"
    /\ body.v["choices"].v # <<>>
    /\ LET first == body.v["choices"].v[1] IN
       /\ first.t = "dict"
       /\ "message" \in DOMAIN first.v
       /\ first.v["message"].t = "dict"
       /\ "content" \in DOMAIN first.v["message"].v
       /\ first.v["message"].v["content"].t = "str"

\* the reply is the "issue contacting the service" apology
IsIssue(text) ==
    Len(text) >= Len(IssuePrefix)
    /\ SubSeq(text, 1, Len(IssuePrefix)) = IssuePrefix

\* the session the handler served got the reply, and sio.emit returned
Delivered ==
    Handled /\ last.emits = 1 /\ last.recipients = {last.sid}

\* C1: every inbound message whose text is non-empty after trimming gets
\* exactly one reply with a non-empty text, on every routing path.
C1_ExactlyOneReply ==
    (Handled /\ NonBlank(last.data))
        => (last.emits = 1 /\ NonEmpty(last.response_text))

\* C2: an inbound text whose trimmed, lowercased form is a key of the
\* canned-response table is answered with the table's value for that key
\* and without an outbound request, whatever the credential.
C2_CannedHit ==
    (Handled /\ CannedInput(last.data))
        => /\ last.response_text
                = Str(canned_responses[lower(strip(RawText(last.data)))])
           /\ last.calls = 0
           /\ last.outcome = NoOutcome

C2_Witness ==
    /\ last.data = JDict([text |-> JStr(<<" ", "H", "e", "L", "L", "O", "\n">>)])
    /\ last.response_text = Str(<<"Greetings. How may I be of service?">>)
    /\ OPENAI_API_KEY = None
    /\ Delivered

\* C3: a message whose text field is absent, empty or whitespace-only
\* produces no reply and no outbound request.
C3_BlankIgnored ==
    (Handled /\ Blank(last.data))
        => /\ last.emits = 0
           /\ last.recipients = {}
           /\ last.calls = 0
           /\ last.outcome = NoOutcome

C3_Witness ==
    /\ last.data = JDict([text |-> JStr(<<" ", "\t">>)])
    /\ NonEmpty(OPENAI_API_KEY)
    /\ last.levels = <<"INFO", "WARNING">>
    /\ last.emits = 0

\* C4: a response object that lacks the expected shape (no `choices`, an
\* empty `choices`, a first choice without a string message.content) is
\* answered with the "uninterpretable response" apology.
C4_MalformedIsUninterpretable ==
    (/\ Handled
     /\ last.outcome.kind = "response"
     /\ last.outcome.status = 200
     /\ last.outcome.body.t = "dict"
     /\ ~WellFormed(last.outcome.body))
        => last.response_text = Str(UninterpretableText)

\* C5: an outbound call in flight for session a does not delay session b:
\* the handler of an event b has sent can run while a's call has not
\* returned.
C5_NoHeadOfLineBlocking ==
    \A a, b \in Sessions :
        (a # b /\ inflight[a] # {} /\ inbox[b] # <<>> /\ last = NoLast)
            => ENABLED message(b)

\* C6: after a failed outbound call the reply is one of a fixed set of
\* apologies, whose text does not depend on the error.
C6_FixedApologies ==
    (/\ Handled
     /\ last.calls = 1
     /\ \/ last.outcome.kind = "raises"
        \/ last.outcome.status \in 400 .. 599
        \/ ~WellFormed(last.outcome.body))
        => last.response_text.s
              \in {TimeoutText, IssuePrefix, UninterpretableText,
                   InternalErrorText}

\* C7: a reply goes to the session that sent the triggering message and to
\* no other session, whatever the other sessions are doing.
C7_ReplyToSenderOnly ==
    /\ \A s \in Sessions :
          \A i \in 1 .. Len(outbox[s]) : outbox[s][i].from = s
    /\ Handled => last.recipients \subseteq {last.sid}
    /\ (/\ Handled
        /\ last.emits = 1
        /\ last.levels[Len(last.levels)] = "INFO"
        /\ conn[last.sid] = "open")
          => last.recipients = {last.sid}

C7_Witness ==
    \E a, b \in Sessions :
        /\ a # b
        /\ conn[a] = "open"
        /\ inflight[a] # {}
        /\ last.sid = b
        /\ last.recipients = {b}
        /\ outbox[a] = <<>>

\* C8: a non-empty utterance that is not in the table, with no credential
\* configured, is answered with the "not configured" apology, and no
\* outbound request is made.
C8_NotConfigured ==
    /\ (/\ Handled
        /\ NonBlank(last.data)
        /\ ~CannedInput(last.data)
        /\ (OPENAI_API_KEY.isNone \/ OPENAI_API_KEY.s = <<>>))
          => /\ last.response_text = Str(NotConfiguredText)
             /\ last.emits = 1
             /\ last.calls = 0
             /\ last.outcome = NoOutcome
    /\ (OPENAI_API_KEY.isNone \/ OPENAI_API_KEY.s = <<>>)
          => \A s \in Sessions : inflight[s] = {}

C8_Witness ==
    /\ OPENAI_API_KEY = Str(<<>>)
    /\ last.data
         = JDict([text |-> JStr(<<" ", "h", "e", "l", "l", "o", " ", "h", "i", " ">>)])
    /\ last.response_text = Str(NotConfiguredText)
    /\ Delivered

\* C9: when the outbound call times out the reply is the "took too long"
\* apology, and the handler does not raise.
C9_Timeout ==
    (/\ Handled
     /\ last.outcome.kind = "raises"
     /\ last.outcome.cls \in {"Timeout", "ConnectTimeout", "ReadTimeout"})
        => /\ last.response_text = Str(TimeoutText)
           /\ last.emits = 1
           /\ ~last.raised

C9_Witness ==
    /\ last.outcome.cls = "ConnectTimeout"
    /\ last.response_text = Str(TimeoutText)
    /\ Delivered

\* the reply is the "issue contacting the service" apology and none of the
\* apologies of the other failure classes
IssueReply ==
    /\ IsIssue(last.response_text.s)
    /\ last.response_text.s
          \notin {TimeoutText, UninterpretableText, InternalErrorText}
    /\ last.emits = 1

\* C10, as stated: a call that fails at the transport level (connection
\* refused, DNS failure) or returns a non-2xx status is answered with the
\* "issue contacting the service" apology.
C10_Non2xxIsIssue ==
    (/\ Handled
     /\ \/ last.outcome.cls = "ConnectionError"
        \/ /\ last.outcome.kind = "response"
           /\ last.outcome.status \notin 200 .. 299)
        => IssueReply

\* C10, amended: a call that fails at the transport level or returns a 4xx
\* or 5xx status is answered with the "issue contacting the service"
\* apology, and with the apology of no other failure class.
C10_TransportOrErrorStatusIsIssue ==
    (/\ Handled
     /\ \/ last.outcome.cls = "ConnectionError"
        \/ /\ last.outcome.kind = "response"
           /\ last.outcome.status \in 400 .. 599)
        => IssueReply

C10_Witness ==
    /\ last.outcome.kind = "response"
    /\ last.outcome.status = 401
    /\ last.response_text = Str(IssueText(HTTPErrorText(401)))
    /\ Delivered


\* c without its leading and trailing whitespace: the part of c from its
\* first to its last character that is not whitespace
TrimOf(c) ==
    LET ink == {k \in 1 .. Len(c) : c[k] \notin Whitespace} IN
    IF ink = {} THEN <<>>
    ELSE SubSeq(c, CHOOSE k \in ink : \A m \in ink : k <= m,
                   CHOOSE k \in ink : \A m \in ink : k >= m)

FirstContent(body) == body.v["choices"].v[1].v["message"].v["content"].v

\* the request got a 2xx response
Success(o) == o.kind = "response" /\ o.status \in 200 .. 299

\* C11: for a non-empty utterance that is not in the table, with a
\* credential configured and a 2xx response with a well-formed body, the
\* reply text is the first choice's content without its surrounding
\* whitespace, and a text that is not empty is emitted.
C11_TrimmedFirstChoice ==
    (/\ Handled
     /\ NonBlank(last.data)
     /\ ~CannedInput(last.data)
     /\ NonEmpty(OPENAI_API_KEY)
     /\ Success(last.outcome)
     /\ WellFormed(last.outcome.body))
        => /\ ~last.response_text.isNone
           /\ last.response_text.s = TrimOf(FirstContent(last.outcome.body))
           /\ NonEmpty(last.response_text) => last.emits = 1

C11_Witness ==
    /\ last.outcome
         = Response(200, Completion(JStr(<<" ", "Sunny today.", " ">>)))
    /\ last.response_text = Str(<<"Sunny today.">>)
    /\ last.calls = 1
    /\ Delivered

\* C12: the replies a session has received are in the order of the
\* messages it sent, which is the order in which the handler took them up.
C12_PerSessionOrder ==
    \A s \in Sessions :
        \A i \in 1 .. Len(outbox[s]), j \in 1 .. Len(outbox[s]) :
            (i < j /\ outbox[s][i].from = s /\ outbox[s][j].from = s)
                => outbox[s][i].id < outbox[s][j].id

\* C13: a handler sends at most one request to the completion endpoint,
\* and exactly one when the request failed or the response was malformed:
\* no handler waits for the answer to a second request.
C13_SingleAttempt ==
    /\ \A s \in Sessions : \A f \in inflight[s] : f.calls = 1
    /\ Handled => last.calls <= 1
    /\ (Handled /\ last.outcome # NoOutcome) => last.calls = 1

C13_Witness ==
    /\ Handled
    /\ last.outcome = Raises("ConnectionError", <<"Connection refused">>)
    /\ last.calls = 1
    /\ last.response_text = Str(IssueText(<<"Connection refused">>))

\* C14: when the session is no longer connected at the time its outbound
\* call ends, the reply reaches no session and the handler does not raise.
C14_DisconnectedReplyDiscarded ==
    (Handled /\ last.calls = 1 /\ conn[last.sid] # "open")
        => (last.recipients = {} /\ ~last.raised)

C14_Witness ==
    /\ Handled
    /\ last.calls = 1
    /\ conn[last.sid] = "closed"
    /\ last.emits = 1
    /\ last.recipients = {}
    /\ last.levels[Len(last.levels)] = "INFO"
    /\ \E t \in Sessions \ {last.sid} : conn[t] = "open"

\* sio.emit was called for a connected session and the reply did not
\* arrive: the call raised
EmitFailed(l) ==
    l.sid # 0 /\ l.emits = 1 /\ l.recipients = {} /\ conn[l.sid] = "open"

\* C15: a step that ends a handler whose sio.emit raised logs an error,
\* does not raise, and leaves the connections of all sessions and the
\* queued events, pending calls and received replies of every other
\* session as they were.
C15_EmitFailureSwallowed ==
    [][(last = NoLast /\ EmitFailed(last'))
          => /\ ~last'.raised
             /\ last'.levels[Len(last'.levels)] = "ERROR"
             /\ conn' = conn
             /\ \A t \in Sessions \ {last'.sid} :
                    /\ inbox'[t] = inbox[t]
                    /\ inflight'[t] = inflight[t]
                    /\ outbox'[t] = outbox[t]]_vars

C15_Witness ==
    /\ EmitFailed(last)
    /\ ~last.raised
    /\ \E t \in Sessions \ {last.sid} :
           conn[t] = "open" /\ inflight[t] # {}

\* the body gives the shape test of the handler nothing to read: it is
\* empty, or has no `choices`, or an empty one
NoChoices(body) ==
    \/ ~Truthy(body)
    \/ /\ body.t = "dict"
       /\ \/ "choices" \notin DOMAIN body.v
          \/ ~Truthy(body.v["choices"])
    \/ /\ body.t = "list"
       /\ \A i \in 1 .. Len(body.v) : body.v[i] # JStr(<<"choices">>)

\* the reply text as a table over the outcome of the outbound call
CallReply(o) ==
    IF o.kind = "raises"
    THEN IF o.cls \in {"ReadTimeout", "ConnectTimeout", "Timeout"}
         THEN TimeoutText
         ELSE IssuePrefix \o o.e
    ELSE IF o.status \in 400 .. 599
    THEN IssuePrefix
         \o <<ToString(o.status), " ",
              IF o.status <= 499 THEN "Client Error" ELSE "Server Error">>
    ELSE IF o.body = NotJson
    THEN IF o.cls = "JSONDecodeError" THEN IssuePrefix \o o.e
         ELSE InternalErrorText
    ELSE IF WellFormed(o.body)
    THEN TrimOf(FirstContent(o.body))
    ELSE IF NoChoices(o.body) THEN UninterpretableText
    ELSE InternalErrorText

\* the reply text as a table over the message's text, the credential and
\* the outcome of the message's own call; it has no other argument
ReplyFor(text, key, o) ==
    LET k == lower(TrimOf(text)) IN
    IF k \in CannedKeys THEN canned_responses[k]
    ELSE IF ~NonEmpty(key) THEN NotConfiguredText
    ELSE CallReply(o)

\* C16: the reply text of every handled non-blank message, whichever
\* session sent it and whatever other messages were handled before it or
\* are in flight beside it, is the value of one table at the message's
\* text, the credential and the outcome of the message's own call.
C16_ReplyDependsOnOwnInputs ==
    (Handled /\ NonBlank(last.data))
        => last.response_text
             = Str(ReplyFor(RawText(last.data), OPENAI_API_KEY, last.outcome))

C16_Witness ==
    /\ Handled
    /\ last.sid = 2
    /\ last.id = 1
    /\ last.calls = 1
    /\ last.response_text = Str(TimeoutText)
    /\ inflight[1] # {}
    /\ Len(outbox[1]) = 0

\* C17: a payload whose text field is present and is not a string is
\* handled like blank input: a warning, no reply, no outbound request, and
\* the handler does not raise.
C17_NonStringTextIsBlank ==
    (/\ Handled
     /\ last.data.t = "dict"
     /\ "text" \in DOMAIN last.data.v
     /\ last.data.v["text"].t # "str")
        => /\ ~last.raised
           /\ \E i \in 1 .. Len(last.levels) : last.levels[i] = "WARNING"
           /\ last.emits = 0
           /\ last.calls = 0

====
